---- MODULE Spec2Model ----
(***************************************************************************)
(* Model of ls_manage.py: the export -> mutate -> restore round trip of    *)
(* update_rule against the external rule store, with the anchor lookup     *)
(* find_code_requirement_key and the helpers it is built from.             *)
(***************************************************************************)
EXTENDS Integers, Sequences, FiniteSets, TLC

VARIABLES
    store,          \* the live model held by the external store
    present,        \* the real (resolved) files that exist on disk
    clock,          \* wall clock, in seconds
    files,          \* backup and transient files: file name -> model
    calls,          \* the export-model / restore-model commands run so far
    pc,             \* per invocation: the next step of update_rule
    args,           \* per invocation: the parsed command line
    binary_path,    \* per invocation: update_rule's binary_path
    resolved_path,  \* per invocation: update_rule's resolved_path
    new_hash,       \* per invocation: update_rule's new_hash
    timestamp,      \* per invocation: update_rule's timestamp
    cr_key,         \* per invocation: update_rule's cr_key
    config,         \* per invocation: update_rule's config
    exit_code,      \* per invocation: the process exit status, -1 while running
    cause           \* per invocation: why the process ended

vars == <<store, present, clock, files, calls, pc, args, binary_path,
          resolved_path, new_hash, timestamp, cr_key, config, exit_code, cause>>

----------------------------------------------------------------------------
(* Bounds *)

\* The clock runs from 1 to MaxClock seconds.
MaxClock == 2

----------------------------------------------------------------------------
(* Python values *)

\* Python's None where a string is expected.
None == "<None>"

\* A file that was never written, where a model is expected.
NoModel == [nofile |-> TRUE]

\* dict.get(k, default)
Get(d, k, default) == IF k \in DOMAIN d THEN d[k] ELSE default

\* d[k] = v on a dict whose order is irrelevant
SetField(d, k, v) == (k :> v) @@ d

\* del d[k]
DelField(d, k) == [f \in DOMAIN d \ {k} |-> d[f]]

\* An insertion-ordered dict (codeRequirements) is a sequence of
\* [key, value] entries with distinct keys.
DictHas(d, k) == \E n \in 1..Len(d) : d[n].key = k

DictGet(d, k) == d[CHOOSE n \in 1..Len(d) : d[n].key = k].value

\* d[k] = v: an existing key keeps its position, a new key goes last.
DictSet(d, k, v) ==
    IF DictHas(d, k)
    THEN [n \in 1..Len(d) |-> IF d[n].key = k THEN [key |-> k, value |-> v] ELSE d[n]]
    ELSE Append(d, [key |-> k, value |-> v])

----------------------------------------------------------------------------
(* Strings.  A state holds strings as atoms; the string functions of        *)
(* find_code_requirement_key work on their characters.                      *)

CharsTable ==
  ("/usr/local/bin/mosh-server" :> <<"/", "u", "s", "r", "/", "l", "o", "c", "a", "l", "/", "b", "i", "n", "/", "m", "o", "s", "h", "-", "s", "e", "r", "v", "e", "r">>) @@
  ("/usr/local/Cellar/mosh/1.4.0/bin/mosh-server" :> <<"/", "u", "s", "r", "/", "l", "o", "c", "a", "l", "/", "C", "e", "l", "l", "a", "r", "/", "m", "o", "s", "h", "/", "1", ".", "4", ".", "0", "/", "b", "i", "n", "/", "m", "o", "s", "h", "-", "s", "e", "r", "v", "e", "r">>) @@
  ("/usr/local/Cellar/mosh/1.4.0_34/bin/mosh-server" :> <<"/", "u", "s", "r", "/", "l", "o", "c", "a", "l", "/", "C", "e", "l", "l", "a", "r", "/", "m", "o", "s", "h", "/", "1", ".", "4", ".", "0", "_", "3", "4", "/", "b", "i", "n", "/", "m", "o", "s", "h", "-", "s", "e", "r", "v", "e", "r">>) @@
  ("/usr/local/Cellar/mosh/1.3.0/bin/mosh-server" :> <<"/", "u", "s", "r", "/", "l", "o", "c", "a", "l", "/", "C", "e", "l", "l", "a", "r", "/", "m", "o", "s", "h", "/", "1", ".", "3", ".", "0", "/", "b", "i", "n", "/", "m", "o", "s", "h", "-", "s", "e", "r", "v", "e", "r">>) @@
  ("path.usr/local/Cellar/mosh/*/bin/mosh-server" :> <<"p", "a", "t", "h", ".", "u", "s", "r", "/", "l", "o", "c", "a", "l", "/", "C", "e", "l", "l", "a", "r", "/", "m", "o", "s", "h", "/", "*", "/", "b", "i", "n", "/", "m", "o", "s", "h", "-", "s", "e", "r", "v", "e", "r">>) @@
  ("/usr/bin/x" :> <<"/", "u", "s", "r", "/", "b", "i", "n", "/", "x">>) @@
  ("x" :> <<"x">>) @@
  ("nosuch" :> <<"n", "o", "s", "u", "c", "h">>) @@
  ("/opt/MyCellar/bin/t" :> <<"/", "o", "p", "t", "/", "M", "y", "C", "e", "l", "l", "a", "r", "/", "b", "i", "n", "/", "t">>) @@
  ("/srv/Cellar" :> <<"/", "s", "r", "v", "/", "C", "e", "l", "l", "a", "r">>) @@
  ("/opt/Cellar/p" :> <<"/", "o", "p", "t", "/", "C", "e", "l", "l", "a", "r", "/", "p">>)

Chars(s) == CharsTable[s]

\* sub in s  (Python substring test; the empty string is in every string)
Contains(sub, s) ==
    \E k \in 0..(Len(s) - Len(sub)) :
        \A n \in 1..Len(sub) : s[k + n] = sub[n]

\* The positions of the separator character in s.
SepPositions(s, sep) == {n \in 1..Len(s) : s[n] = sep}

\* s.split(sep) for a one-character separator: the pieces between
\* separators, empty pieces kept.
RECURSIVE SplitFrom(_, _, _)
SplitFrom(s, sep, from) ==
    LET later == {n \in SepPositions(s, sep) : n >= from}
    IN  IF later = {}
        THEN << SubSeq(s, from, Len(s)) >>
        ELSE LET p == CHOOSE n \in later : \A m \in later : n <= m
             IN  << SubSeq(s, from, p - 1) >> \o SplitFrom(s, sep, p + 1)

Split(s, sep) == SplitFrom(s, sep, 1)

\* parts.index(x): the first position (0-based) of x, or -1 for ValueError.
Index(parts, x) ==
    LET hits == {n \in 1..Len(parts) : parts[n] = x}
    IN  IF hits = {} THEN -1
        ELSE (CHOOSE n \in hits : \A m \in hits : n <= m) - 1

\* parts[from:] with a 0-based start (empty when from is past the end).
SliceFrom(parts, from) == SubSeq(parts, from + 1, Len(parts))

\* sep.join(parts)
RECURSIVE Join(_, _)
Join(sep, parts) ==
    IF Len(parts) = 0 THEN << >>
    ELSE IF Len(parts) = 1 THEN parts[1]
    ELSE parts[1] \o << sep >> \o Join(sep, Tail(parts))

----------------------------------------------------------------------------
(* The file system the tool looks at *)

MoshLink == "/usr/local/bin/mosh-server"
MoshReal == "/usr/local/Cellar/mosh/1.4.0/bin/mosh-server"
MoshReal34 == "/usr/local/Cellar/mosh/1.4.0_34/bin/mosh-server"
MoshOldKey == "/usr/local/Cellar/mosh/1.3.0/bin/mosh-server"
MoshPatternKey == "path.usr/local/Cellar/mosh/*/bin/mosh-server"

\* The regular files on disk at the start.
RealFiles == {MoshReal, MoshReal34, "/usr/bin/x", "/opt/MyCellar/bin/t",
              "/srv/Cellar", "/opt/Cellar/p"}

\* os.path.realpath: MoshLink is a symbolic link into the Cellar, every
\* other path resolves to itself.
Realpath(p) == IF p = MoshLink THEN MoshReal ELSE p

\* os.path.exists (follows symbolic links)
Exists(p, disk) == Realpath(p) \in disk

\* shutil.which: "x" is on the PATH as /usr/bin/x.
Which(name, disk) ==
    IF name = "x" /\ "/usr/bin/x" \in disk THEN "/usr/bin/x" ELSE None

\* hashlib.sha256 over the file's bytes, as a hex digest: one digest per
\* file content, the two mosh versions differing.
Sha256Hex(p) ==
    CASE p = MoshReal -> "5d41402a"
      [] p = MoshReal34 -> "7d793037"
      [] p = "/usr/bin/x" -> "2c26b46b"
      [] p = "/opt/MyCellar/bin/t" -> "e3b0c442"
      [] p = "/srv/Cellar" -> "fcde2b2e"
      [] p = "/opt/Cellar/p" -> "148de9c5"

----------------------------------------------------------------------------
(* find_code_requirement_key *)

CellarWord == << "C", "e", "l", "l", "a", "r" >>

\* The result of a call: the key returned (None for none) or the exception
\* that escapes.
Returned(k) == [raised |-> "none", key |-> k]
Raised(e) == [raised |-> e, key |-> None]

\* The first key, in the dict's order, that contains both the package name
\* and the relative path; None when no key does.
FirstKeyLike(cr, package_name, relative_path) ==
    LET hits == {n \in 1..Len(cr) :
                    /\ Contains(package_name, Chars(cr[n].key))
                    /\ Contains(relative_path, Chars(cr[n].key))}
    IN  IF hits = {} THEN None
        ELSE cr[CHOOSE n \in hits : \A m \in hits : n <= m].key

\* Mutant: the relative path is cut one segment early, so that it starts
\* with the version.
find_code_requirement_key_from_version(cfg, path) ==
    LET real_path == Chars(Realpath(path))
        parts == Split(real_path, "/")
        cellar_index == Index(parts, CellarWord)
    IN  IF ~ Contains(CellarWord, real_path) THEN Returned(None)
        ELSE IF cellar_index = -1 THEN Returned(None)
        ELSE IF cellar_index + 1 >= Len(parts) THEN Raised("IndexError")
        ELSE Returned(FirstKeyLike(Get(cfg, "codeRequirements", << >>),
                                   parts[cellar_index + 2],
                                   Join("/", SliceFrom(parts, cellar_index + 2))))

\* Mutant: a key equal to the resolved path is returned before the Cellar
\* heuristic is tried.
find_code_requirement_key_exact_first(cfg, path) ==
    LET real_path == Chars(Realpath(path))
        parts == Split(real_path, "/")
        cellar_index == Index(parts, CellarWord)
    IN  IF DictHas(Get(cfg, "codeRequirements", << >>), Realpath(path))
        THEN Returned(Realpath(path))
        ELSE IF ~ Contains(CellarWord, real_path) THEN Returned(None)
        ELSE IF cellar_index = -1 THEN Returned(None)
        ELSE IF cellar_index + 1 >= Len(parts) THEN Raised("IndexError")
        ELSE Returned(FirstKeyLike(Get(cfg, "codeRequirements", << >>),
                                   parts[cellar_index + 2],
                                   Join("/", SliceFrom(parts, cellar_index + 3))))

find_code_requirement_key(cfg, path) ==
    LET real_path == Chars(Realpath(path))
        parts == Split(real_path, "/")
        cellar_index == Index(parts, CellarWord)
    IN  IF ~ Contains(CellarWord, real_path) THEN Returned(None)
        ELSE IF cellar_index = -1 THEN Returned(None)
        ELSE IF cellar_index + 1 >= Len(parts) THEN Raised("IndexError")
        ELSE Returned(FirstKeyLike(Get(cfg, "codeRequirements", << >>),
                                   parts[cellar_index + 2],
                                   Join("/", SliceFrom(parts, cellar_index + 3))))

----------------------------------------------------------------------------
(* Inputs: command lines and exported models *)

\* The ports/protocol/direction/remote of a command line.
RuleSpecs ==
    { [ports |-> "60000-61000", protocol |-> "udp", direction |-> "both", remote |-> "any"],
      [ports |-> "8080", protocol |-> "tcp", direction |-> "outgoing", remote |-> "any"] }

MkArgs(p, s, r) ==
    [path |-> p, ports |-> s.ports, protocol |-> s.protocol,
     direction |-> s.direction, remote |-> s.remote, replace |-> r]

\* The path argument: a symbolic link, real paths, names on and off the
\* PATH, paths with "Cellar" inside a segment, last, and second to last.
ArgPaths == {MoshLink, MoshReal34, "/usr/bin/x", "x", "nosuch",
             "/opt/MyCellar/bin/t", "/srv/Cellar", "/opt/Cellar/p"}

Args == {MkArgs(p, s, r) : p \in ArgPaths, s \in RuleSpecs, r \in BOOLEAN}

NoArgs == [path |-> None, ports |-> None, protocol |-> None,
           direction |-> None, remote |-> None, replace |-> FALSE]

\* A rule already in the store.
OldRule(p, ports) ==
    [action |-> "allow", process |-> p, ports |-> ports, protocol |-> "udp",
     direction |-> "both", remote |-> "any", origin |-> "frontend",
     creationDate |-> 0, modificationDate |-> 0]

\* The rules field of an exported model: absent ({}), or one of these lists.
RulesChoices ==
    { {},
      { << >> },
      { << OldRule("/usr/bin/x", "22"), OldRule(MoshLink, "60000-61000"),
           OldRule("/usr/bin/x", "443") >> },
      { << OldRule(MoshLink, "60000-61000"),
           [action |-> "deny", ports |-> "25"] >> } }

Entry(k, v) == [key |-> k, value |-> v]

\* The codeRequirements field of an exported model: absent ({}), or one of
\* these dicts.
CodeRequirementsChoices ==
    { {},
      { << >> },
      { << Entry(MoshPatternKey, [type |-> "trustedAnchor", codeIdentifier |-> "abc123",
                                  authorIdentifier |-> "dev"]) >> },
      { << Entry(MoshPatternKey, [type |-> "fileHash", codeIdentifier |-> "abc123"]) >> },
      { << Entry(MoshPatternKey, [type |-> "fileHash", codeIdentifier |-> "5d41402a"]) >> },
      { << Entry(MoshOldKey, [type |-> "fileHash", codeIdentifier |-> "abc123"]),
           Entry(MoshPatternKey, [type |-> "trustedAnchor", codeIdentifier |-> "abc123",
                                  authorIdentifier |-> "dev"]) >> },
      { << Entry("/usr/bin/x", [type |-> "fileHash", codeIdentifier |-> "abc123"]),
           Entry(MoshPatternKey, [type |-> "fileHash", codeIdentifier |-> "abc123",
                                  authorIdentifier |-> "dev"]) >> },
      { << Entry(MoshPatternKey, [authorIdentifier |-> "dev"]) >> } }

\* A model with the fields that are present.
MkModel(crOpt, rulesOpt) ==
    [f \in {g \in {"codeRequirements"} : crOpt # {}} \cup {g \in {"rules"} : rulesOpt # {}} |->
        IF f = "codeRequirements" THEN CHOOSE c \in crOpt : TRUE
        ELSE CHOOSE r \in rulesOpt : TRUE]

Models == {MkModel(c, r) : c \in CodeRequirementsChoices, r \in RulesChoices}

----------------------------------------------------------------------------
(* update_rule, the in-memory part *)

\* Mutant: the type is forced to fileHash but authorIdentifier is kept.
fix_code_requirement_keeps_author(current_cr, hash) ==
    LET typed == IF Get(current_cr, "type", None) # "fileHash"
                 THEN SetField(current_cr, "type", "fileHash")
                 ELSE current_cr
    IN  IF Get(typed, "codeIdentifier", None) # hash
        THEN SetField(typed, "codeIdentifier", hash)
        ELSE typed

\* The anchor found under the key, with its type forced to fileHash and its
\* codeIdentifier set to new_hash.
fix_code_requirement(current_cr, hash) ==
    LET typed == IF Get(current_cr, "type", None) # "fileHash"
                 THEN DelField(SetField(current_cr, "type", "fileHash"), "authorIdentifier")
                 ELSE current_cr
    IN  IF Get(typed, "codeIdentifier", None) # hash
        THEN SetField(typed, "codeIdentifier", hash)
        ELSE typed

\* Mutant: without a key, codeRequirements is started afresh whether or
\* not the model has one.
update_code_requirements_afresh(cfg, key, resolved, hash) ==
    IF key # None /\ key # ""
    THEN SetField(cfg, "codeRequirements",
                  DictSet(cfg["codeRequirements"], key,
                          fix_code_requirement(DictGet(cfg["codeRequirements"], key), hash)))
    ELSE SetField(cfg, "codeRequirements",
                  DictSet(<< >>, resolved,
                          [type |-> "fileHash", codeIdentifier |-> hash]))

\* Step 1: the anchor under the key found is fixed, or a new fileHash
\* anchor is added under resolved_path.
update_code_requirements(cfg, key, resolved, hash) ==
    IF key # None /\ key # ""
    THEN SetField(cfg, "codeRequirements",
                  DictSet(cfg["codeRequirements"], key,
                          fix_code_requirement(DictGet(cfg["codeRequirements"], key), hash)))
    ELSE SetField(cfg, "codeRequirements",
                  DictSet(Get(cfg, "codeRequirements", << >>), resolved,
                          [type |-> "fileHash", codeIdentifier |-> hash]))

new_rule(path, a, created, modified) ==
    [action |-> "allow", process |-> path, ports |-> a.ports,
     protocol |-> a.protocol, direction |-> a.direction, remote |-> a.remote,
     origin |-> "frontend", creationDate |-> created, modificationDate |-> modified]

\* Mutant: only the first rule for the path is dropped.
RECURSIVE other_rules_drops_first(_, _)
other_rules_drops_first(rules, path) ==
    IF rules = << >> THEN << >>
    ELSE IF Get(Head(rules), "process", None) # path
         THEN << Head(rules) >> \o other_rules_drops_first(Tail(rules), path)
         ELSE Tail(rules)

\* [r for r in rules if r.get("process") != binary_path]
RECURSIVE other_rules(_, _)
other_rules(rules, path) ==
    IF rules = << >> THEN << >>
    ELSE IF Get(Head(rules), "process", None) # path
         THEN << Head(rules) >> \o other_rules(Tail(rules), path)
         ELSE other_rules(Tail(rules), path)

\* Step 2: config["rules"] is assigned only under --replace; the append
\* reads config["rules"] and raises KeyError when the field is absent.
add_rule(cfg, path, a, created, modified) ==
    LET rules == Get(cfg, "rules", << >>)
        kept == IF a.replace
                THEN SetField(cfg, "rules", other_rules(rules, path))
                ELSE cfg
    IN  IF "rules" \notin DOMAIN kept
        THEN [raised |-> "KeyError", config |-> kept]
        ELSE [raised |-> "none",
              config |-> SetField(kept, "rules",
                                  Append(kept["rules"], new_rule(path, a, created, modified)))]

\* Lines 120-179 on the model just loaded.
mutate_config(cfg, path, resolved, hash, a, created, modified) ==
    LET found == find_code_requirement_key(cfg, path)
    IN  IF found.raised # "none"
        THEN [raised |-> found.raised, cr_key |-> None, config |-> cfg]
        ELSE [cr_key |-> found.key] @@
             add_rule(update_code_requirements(cfg, found.key, resolved, hash),
                      path, a, created, modified)

----------------------------------------------------------------------------
(* Files and the external store's commands *)

backup_file(t) == << "~/.ls_backups/ls_backup", t >>
modified_file(t) == << "/tmp/ls_modified", t >>

FileNames == {backup_file(t) : t \in 1..MaxClock} \cup {modified_file(t) : t \in 1..MaxClock}

\* What subprocess.run can do: the command succeeds, it exits non-zero
\* (CalledProcessError, turned into sys.exit(1) by run_command), or it
\* cannot be started at all (OSError, which run_command lets through).
Outcomes == {"ok", "nonzero", "oserror"}

Call(i, op, f, m, o) == [inv |-> i, op |-> op, file |-> f, model |-> m, outcome |-> o]

\* The process ends with this status.
Exit(i, code, why) ==
    /\ pc' = [pc EXCEPT ![i] = "done"]
    /\ exit_code' = [exit_code EXCEPT ![i] = code]
    /\ cause' = [cause EXCEPT ![i] = why]

Goto(i, label) ==
    /\ pc' = [pc EXCEPT ![i] = label]
    /\ UNCHANGED <<exit_code, cause>>

----------------------------------------------------------------------------
(* The steps of update_rule *)

\* Lines 91-100: the path is taken as given when it exists, else looked up
\* on the PATH; the process exits when neither finds it.
StartWith(i, a) ==
    /\ pc[i] = "start"
    /\ args' = [args EXCEPT ![i] = a]
    /\ LET found == IF Exists(a.path, present) THEN a.path ELSE Which(a.path, present)
       IN  IF found = None
           THEN /\ Exit(i, 1, "binary not found")
                /\ UNCHANGED <<binary_path, resolved_path>>
           ELSE /\ binary_path' = [binary_path EXCEPT ![i] = found]
                /\ resolved_path' = [resolved_path EXCEPT ![i] = Realpath(found)]
                /\ Goto(i, "hash")
    /\ UNCHANGED <<store, present, clock, files, calls, new_hash, timestamp, cr_key, config>>

Start(i) == \E a \in Args : StartWith(i, a)

\* Another process removes the binary between its lookup and its hashing.
Unlink(i) ==
    /\ pc[i] = "hash"
    /\ resolved_path[i] \in present
    /\ present' = present \ {resolved_path[i]}
    /\ UNCHANGED <<store, clock, files, calls, pc, args, binary_path, resolved_path,
                   new_hash, timestamp, cr_key, config, exit_code, cause>>

\* Lines 102-103, get_binary_hash.
Hash(i) ==
    /\ pc[i] = "hash"
    /\ IF ~ Exists(Realpath(resolved_path[i]), present)
       THEN /\ Exit(i, 1, "file not found")
            /\ UNCHANGED new_hash
       ELSE /\ new_hash' = [new_hash EXCEPT ![i] = Sha256Hex(Realpath(resolved_path[i]))]
            /\ Goto(i, "clock")
    /\ UNCHANGED <<store, present, clock, files, calls, args, binary_path,
                   resolved_path, timestamp, cr_key, config>>

\* Lines 105-112: the file names carry the time of day, to the second.
ReadClock(i) ==
    /\ pc[i] = "clock"
    /\ \E t \in clock..MaxClock :
          /\ clock' = t
          /\ timestamp' = [timestamp EXCEPT ![i] = t]
    /\ Goto(i, "export")
    /\ UNCHANGED <<store, present, files, calls, args, binary_path, resolved_path,
                   new_hash, cr_key, config>>

\* Mutant: a failed export-model command is not fatal and the run goes on.
Export_goes_on(i) ==
    /\ pc[i] = "export"
    /\ \E o \in Outcomes :
          /\ files' = IF o = "ok"
                      THEN [files EXCEPT ![backup_file(timestamp[i])] = store]
                      ELSE files
          /\ calls' = Append(calls, Call(i, "export", backup_file(timestamp[i]),
                                         IF o = "ok" THEN store ELSE NoModel, o))
          /\ Goto(i, "mutate")
    /\ UNCHANGED <<store, present, clock, args, binary_path, resolved_path,
                   new_hash, timestamp, cr_key, config>>

\* Lines 114-115, export_config: the store writes its model to the backup
\* file; a command that fails ends the process.
Export(i) ==
    /\ pc[i] = "export"
    /\ \E o \in Outcomes :
          IF o = "ok"
          THEN /\ files' = [files EXCEPT ![backup_file(timestamp[i])] = store]
               /\ calls' = Append(calls, Call(i, "export", backup_file(timestamp[i]), store, o))
               /\ Goto(i, "mutate")
          ELSE /\ calls' = Append(calls, Call(i, "export", backup_file(timestamp[i]), NoModel, o))
               /\ Exit(i, 1, IF o = "nonzero" THEN "export failed" ELSE "export OSError")
               /\ UNCHANGED files
    /\ UNCHANGED <<store, present, clock, args, binary_path, resolved_path,
                   new_hash, timestamp, cr_key, config>>

\* Lines 117-179: the backup is loaded and changed in memory; the two dates
\* of the new rule are two readings of the clock.  An exception that
\* escapes ends the process with status 1.
Mutate(i) ==
    /\ pc[i] = "mutate"
    /\ \E created \in clock..MaxClock : \E modified \in created..MaxClock :
          LET result == mutate_config(files[backup_file(timestamp[i])], binary_path[i],
                                      resolved_path[i], new_hash[i], args[i],
                                      created, modified)
          IN  /\ clock' = modified
              /\ cr_key' = [cr_key EXCEPT ![i] = result.cr_key]
              /\ config' = [config EXCEPT ![i] = result.config]
              /\ IF result.raised # "none"
                 THEN Exit(i, 1, result.raised)
                 ELSE Goto(i, "save")
    /\ UNCHANGED <<store, present, files, calls, args, binary_path, resolved_path,
                   new_hash, timestamp>>

\* Mutant: the changed model is written over the backup.
Save_over_backup(i) ==
    /\ pc[i] = "save"
    /\ files' = [files EXCEPT ![backup_file(timestamp[i])] = config[i],
                              ![modified_file(timestamp[i])] = config[i]]
    /\ Goto(i, "restore")
    /\ UNCHANGED <<store, present, clock, calls, args, binary_path, resolved_path,
                   new_hash, timestamp, cr_key, config>>

\* Lines 181-183: the changed model goes to the transient file.
Save(i) ==
    /\ pc[i] = "save"
    /\ files' = [files EXCEPT ![modified_file(timestamp[i])] = config[i]]
    /\ Goto(i, "restore")
    /\ UNCHANGED <<store, present, clock, calls, args, binary_path, resolved_path,
                   new_hash, timestamp, cr_key, config>>

\* Mutant: the first restore is given the backup file.
Restore_from_backup(i) ==
    /\ pc[i] = "restore"
    /\ \E o \in Outcomes :
          /\ calls' = Append(calls, Call(i, "restore", backup_file(timestamp[i]),
                                         files[backup_file(timestamp[i])], o))
          /\ CASE o = "ok" ->
                    /\ store' = files[backup_file(timestamp[i])]
                    /\ Exit(i, 0, "updated")
               [] o = "nonzero" ->
                    /\ Exit(i, 1, "restore failed")
                    /\ UNCHANGED store
               [] o = "oserror" ->
                    /\ Goto(i, "revert")
                    /\ UNCHANGED store
    /\ UNCHANGED <<present, clock, files, args, binary_path, resolved_path,
                   new_hash, timestamp, cr_key, config>>

\* Lines 185-187 and 195-198, restore_config(modified_file): on success the
\* store holds the file's model and the process ends with status 0.
\* sys.exit(1) raises SystemExit, which "except Exception" does not catch;
\* only an OSError reaches the handler.
Restore(i) ==
    /\ pc[i] = "restore"
    /\ \E o \in Outcomes :
          /\ calls' = Append(calls, Call(i, "restore", modified_file(timestamp[i]),
                                         files[modified_file(timestamp[i])], o))
          /\ CASE o = "ok" ->
                    /\ store' = files[modified_file(timestamp[i])]
                    /\ Exit(i, 0, "updated")
               [] o = "nonzero" ->
                    /\ Exit(i, 1, "restore failed")
                    /\ UNCHANGED store
               [] o = "oserror" ->
                    /\ Goto(i, "revert")
                    /\ UNCHANGED store
    /\ UNCHANGED <<present, clock, files, args, binary_path, resolved_path,
                   new_hash, timestamp, cr_key, config>>

\* Lines 188-193: restore_config(backup_file), then sys.exit(1); a failing
\* command ends the process with status 1 as well.
Revert(i) ==
    /\ pc[i] = "revert"
    /\ \E o \in Outcomes :
          /\ calls' = Append(calls, Call(i, "restore", backup_file(timestamp[i]),
                                         files[backup_file(timestamp[i])], o))
          /\ store' = IF o = "ok" THEN files[backup_file(timestamp[i])] ELSE store
          /\ Exit(i, 1, CASE o = "ok" -> "reverted"
                          [] o = "nonzero" -> "revert failed"
                          [] o = "oserror" -> "revert OSError")
    /\ UNCHANGED <<present, clock, files, args, binary_path, resolved_path,
                   new_hash, timestamp, cr_key, config>>

----------------------------------------------------------------------------
(* One invocation against the store *)

Invocations == {"A"}

InitWith(invs, models) ==
    /\ store \in models
    /\ present = RealFiles
    /\ clock = 1
    /\ files = [f \in FileNames |-> NoModel]
    /\ calls = << >>
    /\ pc = [i \in invs |-> "start"]
    /\ args = [i \in invs |-> NoArgs]
    /\ binary_path = [i \in invs |-> None]
    /\ resolved_path = [i \in invs |-> None]
    /\ new_hash = [i \in invs |-> None]
    /\ timestamp = [i \in invs |-> 0]
    /\ cr_key = [i \in invs |-> None]
    /\ config = [i \in invs |-> NoModel]
    /\ exit_code = [i \in invs |-> -1]
    /\ cause = [i \in invs |-> "running"]

Init == InitWith(Invocations, Models)

Next ==
    \/ \E i \in DOMAIN pc : Start(i)
    \/ \E i \in DOMAIN pc : Unlink(i)
    \/ \E i \in DOMAIN pc : Hash(i)
    \/ \E i \in DOMAIN pc : ReadClock(i)
    \/ \E i \in DOMAIN pc : Export(i)
    \/ \E i \in DOMAIN pc : Mutate(i)
    \/ \E i \in DOMAIN pc : Save(i)
    \/ \E i \in DOMAIN pc : Restore(i)
    \/ \E i \in DOMAIN pc : Revert(i)

Spec == Init /\ [][Next]_vars

----------------------------------------------------------------------------
(* Two invocations against the same store, with no lock between them *)

ConcInvocations == {"A", "B"}

ConcModels ==
    { MkModel({ << >> }, { << >> }),
      MkModel({ << Entry(MoshPatternKey, [type |-> "trustedAnchor", codeIdentifier |-> "abc123",
                                          authorIdentifier |-> "dev"]) >> },
              { << OldRule("/usr/bin/x", "22"), OldRule(MoshLink, "60000-61000") >> }) }

ConcSpec == [ports |-> "60000-61000", protocol |-> "udp", direction |-> "both",
             remote |-> "any"]

ConcArgs == {MkArgs(MoshLink, ConcSpec, TRUE), MkArgs("/usr/bin/x", ConcSpec, FALSE)}

StartConc(i) == \E a \in ConcArgs : StartWith(i, a)

InitConc == InitWith(ConcInvocations, ConcModels)

NextConc ==
    \/ \E i \in DOMAIN pc : StartConc(i)
    \/ \E i \in DOMAIN pc : Hash(i)
    \/ \E i \in DOMAIN pc : ReadClock(i)
    \/ \E i \in DOMAIN pc : Export(i)
    \/ \E i \in DOMAIN pc : Mutate(i)
    \/ \E i \in DOMAIN pc : Save(i)
    \/ \E i \in DOMAIN pc : Restore(i)
    \/ \E i \in DOMAIN pc : Revert(i)

SpecConc == InitConc /\ [][NextConc]_vars

----------------------------------------------------------------------------
(* What the properties below read off a state *)

\* The export-model or restore-model commands invocation i has run.
CallsOf(i, op) == SelectSeq(calls, LAMBDA c : c.inv = i /\ c.op = op)

\* Invocation i's export succeeded; Exported(i) is the model it wrote.
HasExported(i) == \E n \in 1..Len(calls) :
    calls[n].inv = i /\ calls[n].op = "export" /\ calls[n].outcome = "ok"

Exported(i) == CallsOf(i, "export")[1].model

\* Invocation i got through lines 120-179 without an exception.
Mutated(i) ==
    \/ pc[i] \in {"save", "restore", "revert"}
    \/ pc[i] = "done" /\ cause[i] \in {"updated", "restore failed", "reverted",
                                       "revert failed", "revert OSError"}

\* Invocation i got through find_code_requirement_key without an exception.
LookedUp(i) == Mutated(i) \/ (pc[i] = "done" /\ cause[i] = "KeyError")

\* The number of rules for process p.
RulesFor(rules, p) == Cardinality({n \in 1..Len(rules) : Get(rules[n], "process", None) = p})

\* os.getuid() of the invoking user.
Uid == 501

----------------------------------------------------------------------------
(* C1 *)

\* C1: whenever the restore of the mutated model fails, the invocation makes
\* a second restore call, with the backup file holding the model as exported,
\* before it ends, and it ends with a non-zero status.
C1_FailedRestoreRollsBack ==
    \A i \in DOMAIN pc :
        LET r == CallsOf(i, "restore")
        IN  (pc[i] = "done" /\ Len(r) >= 1 /\ r[1].outcome # "ok")
                => /\ Len(r) = 2
                   /\ r[2].file = backup_file(timestamp[i])
                   /\ r[2].model = Exported(i)
                   /\ exit_code[i] # 0

----------------------------------------------------------------------------
(* C2 *)

\* C2: without --replace, on a model whose rules are empty, the model handed
\* to restore holds exactly one rule, with the ports, protocol, direction and
\* remote of the command line, action allow, origin frontend, and a uid field
\* equal to the invoking user's numeric identifier.
C2_OneRuleWithUid ==
    \A i \in DOMAIN pc : \A n \in 1..Len(calls) :
        ( /\ calls[n].inv = i
          /\ calls[n].op = "restore"
          /\ calls[n].file = modified_file(timestamp[i])
          /\ ~ args[i].replace
          /\ Get(Exported(i), "rules", None) = << >> )
        => LET rules == calls[n].model["rules"]
           IN  /\ Len(rules) = 1
               /\ rules[1].ports = args[i].ports
               /\ rules[1].protocol = args[i].protocol
               /\ rules[1].direction = args[i].direction
               /\ rules[1].remote = args[i].remote
               /\ rules[1].action = "allow"
               /\ rules[1].origin = "frontend"
               /\ "uid" \in DOMAIN rules[1]
               /\ rules[1].uid = Uid

----------------------------------------------------------------------------
(* C3 *)

\* C3: after the update the rules are, with --replace, the exported rules
\* whose process differs from the path, in their order, followed by the new
\* rule, so that exactly one rule is for the path; without --replace, all the
\* exported rules in their order followed by the new rule, so that the path
\* has one rule more than before.  The update completes on every model with
\* a rules field and on every model under --replace.
C3_ReplaceOrAppend ==
    \A i \in DOMAIN pc :
        /\ (LookedUp(i) /\ (args[i].replace \/ "rules" \in DOMAIN Exported(i))) => Mutated(i)
        /\ Mutated(i) =>
            LET prior == Get(Exported(i), "rules", << >>)
                after == config[i]["rules"]
                front == SubSeq(after, 1, Len(after) - 1)
                differs(r) == Get(r, "process", None) # binary_path[i]
            IN  /\ Len(after) >= 1
                /\ after[Len(after)].process = binary_path[i]
                /\ after[Len(after)].ports = args[i].ports
                /\ args[i].replace =>
                      /\ front = SelectSeq(prior, differs)
                      /\ RulesFor(after, binary_path[i]) = 1
                /\ ~ args[i].replace =>
                      /\ front = prior
                      /\ RulesFor(after, binary_path[i]) = RulesFor(prior, binary_path[i]) + 1

\* C3 witness: both cases on a model that held rules for the path and for
\* another process: a replacing run has dropped rules, or an appending run
\* has left two or more rules for the path.
C3_Witness ==
    \E i \in DOMAIN pc :
        /\ Mutated(i)
        /\ RulesFor(Get(Exported(i), "rules", << >>), binary_path[i]) = 2
        /\ Len(Get(Exported(i), "rules", << >>)) = 3
        /\ args[i].replace
        /\ Len(config[i]["rules"]) = 2

----------------------------------------------------------------------------
(* C4 *)

\* C4: when an anchor key is resolved, an entry whose type is not fileHash
\* ends with type fileHash, codeIdentifier equal to the digest and no
\* authorIdentifier; an entry that is fileHash with another codeIdentifier
\* ends with codeIdentifier equal to the digest.
C4_AnchorNormalised ==
    \A i \in DOMAIN pc :
        (Mutated(i) /\ cr_key[i] # None) =>
            LET before == DictGet(Exported(i)["codeRequirements"], cr_key[i])
                after == DictGet(config[i]["codeRequirements"], cr_key[i])
            IN  /\ Get(before, "type", None) # "fileHash" =>
                      /\ Get(after, "type", None) = "fileHash"
                      /\ Get(after, "codeIdentifier", None) = new_hash[i]
                      /\ "authorIdentifier" \notin DOMAIN after
                /\ ( /\ Get(before, "type", None) = "fileHash"
                     /\ Get(before, "codeIdentifier", None) # new_hash[i] ) =>
                      /\ Get(after, "type", None) = "fileHash"
                      /\ Get(after, "codeIdentifier", None) = new_hash[i]

\* C4 witness: a resolved key whose entry was a trustedAnchor with an
\* authorIdentifier and another codeIdentifier.
C4_Witness ==
    \E i \in DOMAIN pc :
        /\ Mutated(i)
        /\ cr_key[i] = MoshPatternKey
        /\ LET before == DictGet(Exported(i)["codeRequirements"], cr_key[i])
           IN  /\ Get(before, "type", None) = "trustedAnchor"
               /\ "authorIdentifier" \in DOMAIN before
               /\ Get(before, "codeIdentifier", None) # new_hash[i]

----------------------------------------------------------------------------
(* C5 *)

\* C5: on an exported model without rules, without codeRequirements or
\* without both, with and without --replace, the update raises no error and
\* yields a model with both fields, the new anchor and the new rule in them.
C5_MissingFieldsTreatedAsEmpty ==
    \A i \in DOMAIN pc :
        (LookedUp(i) /\ DOMAIN Exported(i) # {"codeRequirements", "rules"}) =>
            /\ cause[i] # "KeyError"
            /\ DOMAIN config[i] = {"codeRequirements", "rules"}
            /\ \E n \in 1..Len(config[i]["codeRequirements"]) :
                  LET anchor == config[i]["codeRequirements"][n].value
                  IN  /\ Get(anchor, "type", None) = "fileHash"
                      /\ Get(anchor, "codeIdentifier", None) = new_hash[i]
            /\ \E n \in 1..Len(config[i]["rules"]) :
                  Get(config[i]["rules"][n], "process", None) = binary_path[i]

----------------------------------------------------------------------------
(* C6 *)

\* Invocation i has ended with a non-zero status.
Failed(i) == pc[i] = "done" /\ exit_code[i] # 0

\* The commands invocation i has run.
CallsBy(i) == SelectSeq(calls, LAMBDA c : c.inv = i)

\* What holds of an invocation that could not resolve its binary, found no
\* file to hash, or saw export fail.
C6_State ==
    \A i \in DOMAIN pc :
        /\ (pc[i] # "start" /\ binary_path[i] = None) =>
              Failed(i) /\ CallsBy(i) = << >>
        /\ (pc[i] \notin {"start", "hash"} /\ new_hash[i] = None) =>
              Failed(i) /\ CallsBy(i) = << >>
        /\ (\E n \in 1..Len(calls) : /\ calls[n].inv = i
                                     /\ calls[n].op = "export"
                                     /\ calls[n].outcome # "ok") =>
              Failed(i) /\ CallsOf(i, "restore") = << >>
        /\ CallsOf(i, "restore") # << >> =>
              /\ binary_path[i] # None
              /\ new_hash[i] # None
              /\ CallsBy(i)[1].op = "export"
              /\ CallsBy(i)[1].outcome = "ok"

\* C6: the live model is replaced only by a restore command, and an
\* invocation runs restore only after it resolved the binary, hashed it and
\* exported the model: when the binary is not found, the file to hash does
\* not exist or export fails, the invocation ends with a non-zero status
\* having run no restore (and, before export, no command at all).
C6_RestoreOnlyAfterExport ==
    [][ /\ C6_State'
        /\ store' # store =>
              /\ Len(calls') = Len(calls) + 1
              /\ calls'[Len(calls')].op = "restore"
              /\ HasExported(calls'[Len(calls')].inv) ]_vars

\* C6 witness: export-model exited non-zero, and the invocation ended with
\* status 1 with that one command run.
C6_Witness ==
    \E i \in DOMAIN pc :
        /\ Failed(i)
        /\ cause[i] = "export failed"
        /\ Len(calls) = 1
        /\ CallsOf(i, "restore") = << >>

----------------------------------------------------------------------------
(* C7 *)

\* The position in calls of invocation i's successful export.
ExportPosition(i) == CHOOSE n \in 1..Len(calls) :
    calls[n].inv = i /\ calls[n].op = "export" /\ calls[n].outcome = "ok"

\* Every restore of invocation i comes after its successful export.
ExportComesFirst(i) ==
    \A n \in 1..Len(calls) :
        (calls[n].inv = i /\ calls[n].op = "restore") =>
            HasExported(i) /\ ExportPosition(i) < n

\* Another invocation has exported to the backup file of invocation i since.
BackupNameReused(i) ==
    \E n \in (ExportPosition(i) + 1)..Len(calls) :
        /\ calls[n].inv # i
        /\ calls[n].op = "export"
        /\ calls[n].outcome = "ok"
        /\ calls[n].file = backup_file(timestamp[i])

\* No restore has succeeded since invocation i's export.
NoRestoreSince(i) ==
    \A n \in (ExportPosition(i) + 1)..Len(calls) :
        ~ (calls[n].op = "restore" /\ calls[n].outcome = "ok")

\* C7 as claimed: in every state after an invocation's export, also after
\* its restore, failed restore and rollback, its backup file holds the model
\* as exported.
C7_BackupNeverModified ==
    \A i \in DOMAIN pc :
        /\ ExportComesFirst(i)
        /\ HasExported(i) => files[backup_file(timestamp[i])] = Exported(i)

\* C7 as amended: the backup is written by the export, before any restore
\* of the invocation, with the store's model of that moment, and it keeps
\* that content in every later state unless another invocation that read the
\* same second from the clock exports to the same file name; the changed
\* model goes to the transient file, which is another file.
C7_BackupKeptUnlessNameReused ==
    \A i \in DOMAIN pc :
        /\ ExportComesFirst(i)
        /\ HasExported(i) =>
              /\ backup_file(timestamp[i]) # modified_file(timestamp[i])
              /\ NoRestoreSince(i) => Exported(i) = store
              /\ ~ BackupNameReused(i) => files[backup_file(timestamp[i])] = Exported(i)

\* C7 witness: an invocation has restored its changed model from the
\* transient file, the store has moved on, and its backup still holds the
\* model it exported.
C7_Witness ==
    \E i \in DOMAIN pc :
        /\ pc[i] = "done"
        /\ cause[i] = "updated"
        /\ ~ BackupNameReused(i)
        /\ store # Exported(i)
        /\ files[modified_file(timestamp[i])] # Exported(i)
        /\ files[backup_file(timestamp[i])] = Exported(i)

----------------------------------------------------------------------------
(* C8 and C9 *)

\* The update of invocation i is over, by a return or by an exception.
AfterMutate(i) == HasExported(i) /\ pc[i] # "mutate"

MoshWord == << "m", "o", "s", "h" >>
BinMoshServer == << "b", "i", "n", "/", "m", "o", "s", "h", "-", "s", "e", "r", "v", "e", "r" >>

\* The position of key k in an ordered dict.
KeyPosition(d, k) == CHOOSE n \in 1..Len(d) : d[n].key = k

\* The path resolves to /usr/local/Cellar/mosh/V/bin/mosh-server.
IsMoshServerInCellar(p) == Realpath(p) \in {MoshReal, MoshReal34}

\* C8 as claimed: when the model holds the key
\* path.usr/local/Cellar/mosh/*/bin/mosh-server, possibly among other keys,
\* and the path resolves to /usr/local/Cellar/mosh/V/bin/mosh-server, the
\* lookup returns that key.
C8_PatternKeyReturned ==
    \A i \in DOMAIN pc :
        ( /\ AfterMutate(i)
          /\ IsMoshServerInCellar(binary_path[i])
          /\ DictHas(Get(Exported(i), "codeRequirements", << >>), MoshPatternKey) )
        => cr_key[i] = MoshPatternKey

\* C8 as amended: the lookup returns that key when no key before it in the
\* model's order contains both "mosh" and "bin/mosh-server"; in every case
\* it returns the first key of the model that contains both.
C8_FirstMatchingKeyReturned ==
    \A i \in DOMAIN pc :
        ( /\ AfterMutate(i)
          /\ IsMoshServerInCellar(binary_path[i])
          /\ DictHas(Get(Exported(i), "codeRequirements", << >>), MoshPatternKey) )
        => LET cr == Exported(i)["codeRequirements"]
               like(n) == /\ Contains(MoshWord, Chars(cr[n].key))
                          /\ Contains(BinMoshServer, Chars(cr[n].key))
               at == KeyPosition(cr, MoshPatternKey)
           IN  /\ (\A n \in 1..(at - 1) : ~ like(n)) => cr_key[i] = MoshPatternKey
               /\ \E n \in 1..at : /\ cr_key[i] = cr[n].key
                                   /\ like(n)
                                   /\ \A m \in 1..(n - 1) : ~ like(m)

\* C8 witness: the key is returned for version 1.4.0_34 from a model that
\* holds another key before it.
C8_Witness ==
    \E i \in DOMAIN pc :
        /\ AfterMutate(i)
        /\ Realpath(binary_path[i]) = MoshReal34
        /\ DictHas(Get(Exported(i), "codeRequirements", << >>), MoshPatternKey)
        /\ KeyPosition(Exported(i)["codeRequirements"], MoshPatternKey) = 2
        /\ cr_key[i] = MoshPatternKey

\* The resolved path has no segment equal to "Cellar".
NoCellarSegment(p) ==
    \A n \in 1..Len(Split(Chars(Realpath(p)), "/")) :
        Split(Chars(Realpath(p)), "/")[n] # CellarWord

----------------------------------------------------------------------------
(* C10 *)

\* Both invocations exported before either restored, and both restores
\* succeeded.
BothExportedThenRestored ==
    /\ \A i \in DOMAIN pc : pc[i] = "done" /\ cause[i] = "updated"
    /\ Len(calls) = 4
    /\ calls[1].op = "export" /\ calls[2].op = "export"
    /\ calls[3].op = "restore" /\ calls[4].op = "restore"

\* The invocation whose restore ran last, and the other one.
LastRestorer == calls[Len(calls)].inv
FirstRestorer == calls[Len(calls) - 1].inv

\* C10 as claimed: the final live model is the changed model of the
\* invocation whose restore ran last, and holds one new rule only.
C10_LastRestoreWins ==
    BothExportedThenRestored =>
        /\ store = config[LastRestorer]
        /\ Len(store["rules"]) <= Len(Get(calls[1].model, "rules", << >>)) + 1

\* C10 as amended: the final live model is what the transient file named by
\* the last restore held, the changed model of one of the two invocations
\* with one new rule only; it is the changed model of the invocation whose
\* restore ran last when the two invocations read different seconds from
\* the clock.
C10_LastRestoredFileWins ==
    BothExportedThenRestored =>
        /\ store = calls[Len(calls)].model
        /\ store \in {config[i] : i \in DOMAIN pc}
        /\ Len(store["rules"]) <= Len(Get(calls[1].model, "rules", << >>)) + 1
        /\ timestamp[LastRestorer] # timestamp[FirstRestorer] =>
              store = config[LastRestorer]

\* C10 witness: two different changes, the earlier one lost.
C10_Witness ==
    /\ BothExportedThenRestored
    /\ timestamp[LastRestorer] # timestamp[FirstRestorer]
    /\ config[LastRestorer] # config[FirstRestorer]
    /\ calls[Len(calls) - 1].model = config[FirstRestorer]
    /\ store = config[LastRestorer]

----------------------------------------------------------------------------
(* C11 *)

\* The entries of dict d under keys other than k, in their order.
EntriesBut(d, k) == SelectSeq(d, LAMBDA e : e.key # k)

\* C11: the update changes at most one entry of codeRequirements.  Without
\* a resolved key the entry under the resolved real path, and not under the
\* path as given, becomes {type: fileHash, codeIdentifier: digest}: a new
\* entry after the others when the key is new.  With a resolved key only
\* that key's entry can differ.  Every other entry is as exported, in the
\* same order, and no key is removed.
C11_OneAnchorChanged ==
    \A i \in DOMAIN pc :
        LookedUp(i) =>
            LET before == Get(Exported(i), "codeRequirements", << >>)
                after == config[i]["codeRequirements"]
                changed == IF cr_key[i] = None THEN resolved_path[i] ELSE cr_key[i]
            IN  /\ EntriesBut(after, changed) = EntriesBut(before, changed)
                /\ Len(after) >= Len(before)
                /\ \A n \in 1..Len(before) :
                      /\ after[n].key = before[n].key
                      /\ before[n].key # changed => after[n] = before[n]
                /\ Len(after) = IF DictHas(before, changed) THEN Len(before)
                                ELSE Len(before) + 1
                /\ cr_key[i] = None =>
                      /\ resolved_path[i] = Realpath(binary_path[i])
                      /\ DictGet(after, resolved_path[i]) =
                            [type |-> "fileHash", codeIdentifier |-> new_hash[i]]
                      /\ ~ DictHas(before, changed) =>
                            after[Len(after)].key = resolved_path[i]
                      /\ binary_path[i] # resolved_path[i] =>
                            (DictHas(after, binary_path[i]) <=> DictHas(before, binary_path[i]))
                /\ cr_key[i] # None => DictHas(before, cr_key[i])

\* C11 witness: a symbolic link given, no key resolved, and the new anchor
\* under the link's target.
C11_Witness ==
    \E i \in DOMAIN pc :
        /\ Mutated(i)
        /\ cr_key[i] = None
        /\ binary_path[i] = MoshLink
        /\ ~ DictHas(Get(Exported(i), "codeRequirements", << >>), MoshReal)
        /\ DictHas(config[i]["codeRequirements"], MoshReal)
        /\ ~ DictHas(config[i]["codeRequirements"], MoshLink)

----------------------------------------------------------------------------
(* C12 *)

\* C12: for every model and every path, also one whose Cellar segment is its
\* last or is followed by fewer than three segments, the lookup ends without
\* an error and returns none or a key of the model's codeRequirements.
C12_LookupTotal ==
    \A i \in DOMAIN pc :
        AfterMutate(i) =>
            /\ cause[i] # "IndexError"
            /\ \/ cr_key[i] = None
               \/ DictHas(Get(Exported(i), "codeRequirements", << >>), cr_key[i])

====
